---------------------------- MODULE Spec2Model ----------------------------
(***************************************************************************)
(* ATF v2 reader (query_engine/src/atf/v2): index reader, detail reader,   *)
(* thread reader, session reader and the merged (k-way heap) iterator.     *)
(*                                                                         *)
(* Files are sequences of bytes.  The readers decode them the way          *)
(* struct.unpack('<...') does: little-endian fields at fixed offsets.      *)
(* A raised Python exception is the value of the field exc of a result.    *)
(* An Optional value is a sequence: <<>> is None, <<x>> is x.              *)
(***************************************************************************)
EXTENDS Integers, Sequences, FiniteSets, TLC

VARIABLES
    file,       \* single-reader runs: the bytes of the file on disk
    pc,         \* where the run is: "start", "index", "detail", "thread",
                \* "failed", "session", "iterating", "closed"
    ireader,    \* Optional IndexReader opened on file
    dreader,    \* Optional DetailReader opened on file
    manifest,   \* session runs: the threads manifest.json declares, each
                \* with its directory (exists, index.atf, Optional detail.atf)
    json,       \* session runs: the shape of the value parsed from
                \* manifest.json and its two time fields
    held,       \* the file handles and mappings a constructor that raised
                \* had acquired and that nothing has released yet
    thread,     \* thread runs: Optional ThreadReader opened on the one thread
                \* directory of manifest
    session,    \* Optional SessionReader
    iter,       \* Optional MergedEventIter
    out,        \* the (thread_idx, event) pairs the iterator has returned,
                \* each with the sequence number it was read at
    other,      \* Optional second MergedEventIter of the same session, with
                \* the pairs it has returned: [heap, out]
    res         \* outcome of the last call: [op, arg, exc, val]

vars == <<file, pc, ireader, dreader, manifest, json, held, thread, session, iter, out,
          other, res>>

---------------------------------------------------------------------------
(* Bounds of the model *)

MaxThreads == 2         \* thread directories of a session
MaxEvents == 2          \* index events written to one index file
MaxRecords == 2         \* detail records written to one detail file

(* Values written into the files: two distinct timestamps are enough for   *)
(* order, ties and disorder.                                               *)
Timestamps == {10, 20}

---------------------------------------------------------------------------
(* Program constants *)

INDEX_HEADER_SIZE == 64
INDEX_EVENT_SIZE == 32
INDEX_FOOTER_SIZE == 64
DETAIL_HEADER_SIZE == 64
DETAIL_EVENT_HEADER_SIZE == 24
DETAIL_FOOTER_RESERVE == 64

INDEX_MAGIC == <<65, 84, 73, 50>>            \* b'ATI2'
INDEX_FOOTER_MAGIC == <<50, 73, 84, 65>>     \* b'2ITA'
DETAIL_MAGIC == <<65, 84, 68, 50>>           \* b'ATD2'

(* 0xFFFFFFFF, held as the largest integer TLC represents (2^31 - 1). *)
ATF_NO_DETAIL_SEQ == 2147483647

---------------------------------------------------------------------------
(* Bytes and struct *)

Min(a, b) == IF a <= b THEN a ELSE b

Zeros(n) == [i \in 1..n |-> 0]

(* Python's m[a:b] for 0 <= a: the slice is clamped to the length of m. *)
Slice(m, a, b) == SubSeq(m, a + 1, Min(b, Len(m)))

(* Python's m[a:]. *)
SliceFrom(m, a) == SubSeq(m, a + 1, Len(m))

(* struct.unpack of one little-endian unsigned field.  TLC's integers end *)
(* at 2^31 - 1: a field holding more decodes to that largest integer, so   *)
(* 0xFFFFFFFF decodes to ATF_NO_DETAIL_SEQ.  The offsets, counts, lengths  *)
(* and timestamps the readers compute with are all smaller.                *)
IntMax == 2147483646 + 1

RECURSIVE LE(_)
LE(bs) ==
    IF bs = <<>> THEN 0
    ELSE LET high == LE(Tail(bs))
         IN  IF high >= 8388608 THEN IntMax ELSE Head(bs) + 256 * high

U32(bs) == LE(bs)

(* struct.pack of one little-endian unsigned field of n bytes. *)
RECURSIVE ToLE(_, _)
ToLE(v, n) == IF n = 0 THEN <<>> ELSE <<v % 256>> \o ToLE(v \div 256, n - 1)

PackU32(v) == IF v = ATF_NO_DETAIL_SEQ THEN <<255, 255, 255, 255>> ELSE ToLE(v, 4)

Ok(v) == [exc |-> "none", val |-> <<v>>]
Raise(e) == [exc |-> e, val |-> <<>>]

---------------------------------------------------------------------------
(* types.py: the binary structures *)

(* IndexHeader.from_bytes: '<4sBBBBII B3x 4x II QQ QQ' *)
IndexHeader_from_bytes(data) ==
    IF Len(data) < INDEX_HEADER_SIZE THEN Raise("ValueError")
    ELSE Ok([magic         |-> Slice(data, 0, 4),
             endian        |-> LE(Slice(data, 4, 5)),
             version       |-> LE(Slice(data, 5, 6)),
             arch          |-> LE(Slice(data, 6, 7)),
             os            |-> LE(Slice(data, 7, 8)),
             flags         |-> U32(Slice(data, 8, 12)),
             thread_id     |-> U32(Slice(data, 12, 16)),
             clock_type    |-> LE(Slice(data, 16, 17)),
             event_size    |-> U32(Slice(data, 24, 28)),
             event_count   |-> U32(Slice(data, 28, 32)),
             events_offset |-> LE(Slice(data, 32, 40)),
             footer_offset |-> LE(Slice(data, 40, 48)),
             time_start_ns |-> LE(Slice(data, 48, 56)),
             time_end_ns   |-> LE(Slice(data, 56, 64))])

(* IndexEvent.from_bytes: '<QQIIII' *)
IndexEvent_from_bytes(data) ==
    IF Len(data) < INDEX_EVENT_SIZE THEN Raise("ValueError")
    ELSE Ok([timestamp_ns |-> LE(Slice(data, 0, 8)),
             function_id  |-> LE(Slice(data, 8, 16)),
             thread_id    |-> U32(Slice(data, 16, 20)),
             event_kind   |-> U32(Slice(data, 20, 24)),
             call_depth   |-> U32(Slice(data, 24, 28)),
             detail_seq   |-> U32(Slice(data, 28, 32))])

(* IndexFooter.from_bytes: '<4sIQQQQ24x' *)
IndexFooter_from_bytes(data) ==
    IF Len(data) < INDEX_FOOTER_SIZE THEN Raise("ValueError")
    ELSE Ok([magic         |-> Slice(data, 0, 4),
             checksum      |-> U32(Slice(data, 4, 8)),
             event_count   |-> LE(Slice(data, 8, 16)),
             time_start_ns |-> LE(Slice(data, 16, 24)),
             time_end_ns   |-> LE(Slice(data, 24, 32)),
             bytes_written |-> LE(Slice(data, 32, 40))])

(* DetailHeader.from_bytes: '<4sBBBBII I QQQQQ 4x'; the u32 at 16 is read  *)
(* and dropped.                                                            *)
DetailHeader_from_bytes(data) ==
    IF Len(data) < DETAIL_HEADER_SIZE THEN Raise("ValueError")
    ELSE Ok([magic           |-> Slice(data, 0, 4),
             endian          |-> LE(Slice(data, 4, 5)),
             version         |-> LE(Slice(data, 5, 6)),
             arch            |-> LE(Slice(data, 6, 7)),
             os              |-> LE(Slice(data, 7, 8)),
             flags           |-> U32(Slice(data, 8, 12)),
             thread_id       |-> U32(Slice(data, 12, 16)),
             events_offset   |-> LE(Slice(data, 20, 28)),
             event_count     |-> LE(Slice(data, 28, 36)),
             bytes_length    |-> LE(Slice(data, 36, 44)),
             index_seq_start |-> LE(Slice(data, 44, 52)),
             index_seq_end   |-> LE(Slice(data, 52, 60))])

(* DetailEventHeader.from_bytes: '<IHHIIQ' *)
DetailEventHeader_from_bytes(data) ==
    IF Len(data) < DETAIL_EVENT_HEADER_SIZE THEN Raise("ValueError")
    ELSE Ok([total_length |-> U32(Slice(data, 0, 4)),
             event_type   |-> LE(Slice(data, 4, 6)),
             flags        |-> LE(Slice(data, 6, 8)),
             index_seq    |-> U32(Slice(data, 8, 12)),
             thread_id    |-> U32(Slice(data, 12, 16)),
             timestamp    |-> LE(Slice(data, 16, 24))])

(* A decoding that cuts the payload at the end of the data. *)
DetailEvent_from_bytes_Truncating(data) ==
    LET header == DetailEventHeader_from_bytes(data)
    IN  IF header.exc # "none" THEN Raise(header.exc)
        ELSE Ok([header  |-> header.val[1],
                 payload |-> Slice(data, DETAIL_EVENT_HEADER_SIZE,
                                   header.val[1].total_length)])

(* DetailEvent.from_bytes: the header and the payload data[24:total_length] *)
DetailEvent_from_bytes(data) ==
    LET header == DetailEventHeader_from_bytes(data)
    IN  IF header.exc # "none" THEN Raise(header.exc)
        ELSE IF header.val[1].total_length > Len(data) THEN Raise("ValueError")
        ELSE Ok([header  |-> header.val[1],
                 payload |-> Slice(data, DETAIL_EVENT_HEADER_SIZE,
                                   header.val[1].total_length)])

---------------------------------------------------------------------------
(* index.py: IndexReader.  The field closed of a reader is the state of    *)
(* its mmap object: a closed mmap raises ValueError when it is sliced or   *)
(* its length or truth value is taken.                                     *)

(* mmap.mmap(fileno, 0): an empty file cannot be mapped. *)
Mmap(bytes) == IF Len(bytes) = 0 THEN Raise("ValueError") ELSE Ok(bytes)

IndexReader_parse_header(mm) ==
    IF Len(mm) < INDEX_HEADER_SIZE THEN Raise("ValueError")
    ELSE IndexHeader_from_bytes(Slice(mm, 0, INDEX_HEADER_SIZE))

(* A validation that forgets the version. *)
IndexReader_validate_header_NoVersion(header) ==
    IF header.magic # INDEX_MAGIC THEN Raise("ValueError")
    ELSE IF header.endian # 1 THEN Raise("ValueError")
    ELSE IF header.event_size # 32 THEN Raise("ValueError")
    ELSE Ok(TRUE)

IndexReader_validate_header(header) ==
    IF header.magic # INDEX_MAGIC THEN Raise("ValueError")
    ELSE IF header.version # 1 THEN Raise("ValueError")
    ELSE IF header.endian # 1 THEN Raise("ValueError")
    ELSE IF header.event_size # 32 THEN Raise("ValueError")
    ELSE Ok(TRUE)

(* The (footer, event_count) pair of _parse_footer. *)
IndexReader_parse_footer(mm, header) ==
    LET footer_offset == header.footer_offset
        footer == IndexFooter_from_bytes(
                      Slice(mm, footer_offset, footer_offset + INDEX_FOOTER_SIZE))
        events_section_size == Len(mm) - header.events_offset
        calculated_count == events_section_size \div INDEX_EVENT_SIZE
    IN  IF /\ footer_offset + INDEX_FOOTER_SIZE <= Len(mm)
           /\ footer.val[1].magic = INDEX_FOOTER_MAGIC
        THEN [footer |-> <<footer.val[1]>>, event_count |-> footer.val[1].event_count]
        ELSE [footer |-> <<>>, event_count |-> calculated_count]

(* IndexReader.__init__: the reader, or the exception that leaves none. *)
IndexReader_init(bytes) ==
    LET mm == Mmap(bytes)
        header == IndexReader_parse_header(mm.val[1])
        valid == IndexReader_validate_header(header.val[1])
        foot == IndexReader_parse_footer(mm.val[1], header.val[1])
    IN  IF mm.exc # "none" THEN Raise(mm.exc)
        ELSE IF header.exc # "none" THEN Raise(header.exc)
        ELSE IF valid.exc # "none" THEN Raise(valid.exc)
        ELSE Ok([mmap        |-> mm.val[1],
                 header      |-> header.val[1],
                 footer      |-> foot.footer,
                 event_count |-> foot.event_count,
                 closed      |-> FALSE])

(* len(reader): Python's len() rejects a negative __len__. *)
(* A file handle or a mapping of the reader of one file of a thread slot. *)
Handles(slot, reader, kinds) ==
    {[slot |-> slot, reader |-> reader, kind |-> kind] : kind \in kinds}

(* What IndexReader.__init__ has acquired when it returns or raises: the   *)
(* file is opened first and mapped next, and no later step releases either.*)
IndexReader_acquired(bytes) ==
    IF Mmap(bytes).exc # "none" THEN {"file"} ELSE {"file", "mmap"}

IndexReader_len(r) ==
    IF r.event_count < 0 THEN Raise("ValueError") ELSE Ok(r.event_count)

IndexReader_getitem(r, seq) ==
    IF seq < 0 \/ seq >= r.event_count THEN Raise("IndexError")
    ELSE IF r.closed THEN Raise("ValueError")
    ELSE LET offset == r.header.events_offset + seq * INDEX_EVENT_SIZE
         IN  IndexEvent_from_bytes(Slice(r.mmap, offset, offset + INDEX_EVENT_SIZE))

(* A time_range that never consults the footer. *)
IndexReader_time_range_HeaderOnly(r) ==
    <<r.header.time_start_ns, r.header.time_end_ns>>

IndexReader_time_range(r) ==
    IF r.footer # <<>>
    THEN <<r.footer[1].time_start_ns, r.footer[1].time_end_ns>>
    ELSE <<r.header.time_start_ns, r.header.time_end_ns>>

(* IndexReader.close: "if self._mmap:" takes the truth value of the mmap, *)
(* which is its length.  The exception, and the reader afterwards.         *)
IndexReader_close(r) ==
    IF r.closed THEN [exc |-> "ValueError", reader |-> r]
    ELSE [exc |-> "none", reader |-> [r EXCEPT !.closed = TRUE]]

---------------------------------------------------------------------------
(* detail.py: DetailReader *)

DetailReader_parse_header(mm) ==
    IF Len(mm) < DETAIL_HEADER_SIZE THEN Raise("ValueError")
    ELSE DetailHeader_from_bytes(Slice(mm, 0, DETAIL_HEADER_SIZE))

DetailReader_validate_header(header) ==
    IF header.magic # DETAIL_MAGIC THEN Raise("ValueError")
    ELSE IF header.version # 1 THEN Raise("ValueError")
    ELSE IF header.endian # 1 THEN Raise("ValueError")
    ELSE Ok(TRUE)

(* The while loop of _build_event_index, entered at offset with the table  *)
(* built so far.                                                           *)
RECURSIVE DetailReader_walk(_, _, _)
DetailReader_walk(mm, offset, index) ==
    LET end_offset == Len(mm) - DETAIL_FOOTER_RESERVE
        recorded == Append(index, offset)
        total_length == U32(Slice(mm, offset, offset + 4))
    IN  IF ~(offset + DETAIL_EVENT_HEADER_SIZE <= end_offset) THEN index
        ELSE IF offset + 4 > Len(mm) THEN recorded
        ELSE IF total_length < DETAIL_EVENT_HEADER_SIZE THEN recorded
        ELSE DetailReader_walk(mm, offset + total_length, recorded)

(* A table built from the end of the header, whatever events_offset says. *)
DetailReader_build_event_index_FromHeaderEnd(mm, header) ==
    DetailReader_walk(mm, DETAIL_HEADER_SIZE, <<>>)

(* A walk that advances by the 4 bytes of the length field. *)
RECURSIVE DetailReader_walk_ByField(_, _, _)
DetailReader_walk_ByField(mm, offset, index) ==
    LET end_offset == Len(mm) - DETAIL_FOOTER_RESERVE
        recorded == Append(index, offset)
        total_length == U32(Slice(mm, offset, offset + 4))
    IN  IF ~(offset + DETAIL_EVENT_HEADER_SIZE <= end_offset) THEN index
        ELSE IF offset + 4 > Len(mm) THEN recorded
        ELSE IF total_length < DETAIL_EVENT_HEADER_SIZE THEN recorded
        ELSE DetailReader_walk_ByField(mm, offset + 4, recorded)

DetailReader_build_event_index_ByField(mm, header) ==
    DetailReader_walk_ByField(mm, header.events_offset, <<>>)

DetailReader_build_event_index(mm, header) ==
    DetailReader_walk(mm, header.events_offset, <<>>)

DetailReader_init(bytes) ==
    LET mm == Mmap(bytes)
        header == DetailReader_parse_header(mm.val[1])
        valid == DetailReader_validate_header(header.val[1])
    IN  IF mm.exc # "none" THEN Raise(mm.exc)
        ELSE IF header.exc # "none" THEN Raise(header.exc)
        ELSE IF valid.exc # "none" THEN Raise(valid.exc)
        ELSE Ok([mmap        |-> mm.val[1],
                 header      |-> header.val[1],
                 event_index |-> DetailReader_build_event_index(mm.val[1], header.val[1]),
                 closed      |-> FALSE])

(* What DetailReader.__init__ has acquired when it returns or raises. *)
DetailReader_acquired(bytes) ==
    IF Mmap(bytes).exc # "none" THEN {"file"} ELSE {"file", "mmap"}

DetailReader_len(r) == Len(r.event_index)

(* DetailReader.get: Optional DetailEvent, decoded from mmap[offset:]. *)
DetailReader_get(r, detail_seq) ==
    IF detail_seq < 0 \/ detail_seq >= Len(r.event_index) THEN Ok(<<>>)
    ELSE LET offset == r.event_index[detail_seq + 1]
             event == DetailEvent_from_bytes(SliceFrom(r.mmap, offset))
         IN  IF r.closed THEN Raise("ValueError")
             ELSE IF offset + DETAIL_EVENT_HEADER_SIZE > Len(r.mmap) THEN Ok(<<>>)
             ELSE IF event.exc # "none" THEN Raise(event.exc)
             ELSE Ok(<<event.val[1]>>)

(* The scan of get_by_index_seq from detail_seq on: "if event" is false    *)
(* for None alone, DetailEvent defining neither __bool__ nor __len__.      *)
RECURSIVE DetailReader_scan(_, _, _)
DetailReader_scan(r, index_seq, detail_seq) ==
    IF detail_seq >= Len(r.event_index) THEN Ok(<<>>)
    ELSE LET event == DetailReader_get(r, detail_seq)
         IN  IF event.exc # "none" THEN Raise(event.exc)
             ELSE IF event.val[1] # <<>> /\ event.val[1][1].header.index_seq = index_seq
             THEN Ok(event.val[1])
             ELSE DetailReader_scan(r, index_seq, detail_seq + 1)

DetailReader_get_by_index_seq(r, index_seq) == DetailReader_scan(r, index_seq, 0)

DetailReader_close(r) ==
    IF r.closed THEN [exc |-> "ValueError", reader |-> r]
    ELSE [exc |-> "none", reader |-> [r EXCEPT !.closed = TRUE]]

---------------------------------------------------------------------------
(* The files the runs are given.  A writer lays an index file out as       *)
(* header | events | footer | stray bytes; every field a reader checks or  *)
(* follows is also written wrong.                                          *)

SeqsUpTo(S, n) == UNION {[1..k -> S] : k \in 0..n}

WRONG_MAGIC == <<65, 84, 70, 49>>            \* b'ATF1', a magic no reader accepts

IndexEventBytes(ts, seq) ==
    ToLE(ts, 8) \o ToLE(seq + 1, 8) \o PackU32(7) \o PackU32(1) \o PackU32(0)
        \o PackU32(ATF_NO_DETAIL_SEQ)

RECURSIVE IndexEventsBytes(_, _)
IndexEventsBytes(tss, seq) ==
    IF tss = <<>> THEN <<>>
    ELSE IndexEventBytes(Head(tss), seq) \o IndexEventsBytes(Tail(tss), seq + 1)

(* A footer the writer puts in the file: Optional, with the magic it       *)
(* carries and how far its event_count overstates the events written.      *)
FooterChoices ==
    {<<>>} \cup {<<[magic |-> m, extra |-> x]>> :
                    m \in {INDEX_FOOTER_MAGIC, INDEX_MAGIC}, x \in {0, 1, 3}}

(* One index file.  ev: the events' timestamps; ft: the footer choice; pd: *)
(* stray bytes at the end; layout: header | events | footer, or header |   *)
(* footer | events; eoAt, foAt: where the header says the events and the   *)
(* footer are.                                                             *)
IndexFileOf(hdr, ev, ft, pd, layout, eoAt, foAt) ==
    LET footerLen == IF ft = <<>> THEN 0 ELSE INDEX_FOOTER_SIZE
        eventsLen == INDEX_EVENT_SIZE * Len(ev)
        size == INDEX_HEADER_SIZE + eventsLen + footerLen + pd
        eventsStart == IF layout = "footer_first" THEN INDEX_HEADER_SIZE + footerLen
                       ELSE INDEX_HEADER_SIZE
        footerStart == IF layout = "footer_first" THEN INDEX_HEADER_SIZE
                       ELSE INDEX_HEADER_SIZE + eventsLen
        events_offset == IF eoAt = "events" THEN eventsStart ELSE size + 1
        footer_offset == CASE foAt = "footer" -> footerStart
                           [] foAt = "file_start" -> 0
                           [] OTHER -> size
        header == hdr.magic \o <<hdr.endian, hdr.version, 1, 4>> \o PackU32(0) \o PackU32(7)
                      \o <<0>> \o Zeros(3) \o Zeros(4)
                      \o PackU32(hdr.event_size) \o PackU32(Len(ev))
                      \o ToLE(events_offset, 8) \o ToLE(footer_offset, 8)
                      \o ToLE(1, 8) \o ToLE(2, 8)
        footer == IF ft = <<>> THEN <<>>
                  ELSE ft[1].magic \o PackU32(0) \o ToLE(Len(ev) + ft[1].extra, 8)
                           \o ToLE(3, 8) \o ToLE(4, 8) \o ToLE(0, 8) \o Zeros(24)
        events == IndexEventsBytes(ev, 0)
    IN  header
            \o (IF layout = "footer_first" THEN footer \o events ELSE events \o footer)
            \o Zeros(pd)

GoodIndexHeader ==
    [magic |-> INDEX_MAGIC, endian |-> 1, version |-> 1, event_size |-> 32]

CleanFooter == <<[magic |-> INDEX_FOOTER_MAGIC, extra |-> 0]>>

(* Index files whose header passes validation. *)
ValidIndexFiles ==
    {IndexFileOf(GoodIndexHeader, ev, ft, pd, layout, eoAt, foAt) :
        ev \in SeqsUpTo(Timestamps, MaxEvents), ft \in FooterChoices, pd \in {0, 10},
        layout \in {"events_first", "footer_first"},
        eoAt \in {"events", "past_file"},
        foAt \in {"footer", "file_start", "past_file"}}

(* Index files with one or more header fields wrong, and files cut short. *)
BadIndexHeaders ==
    [magic : {INDEX_MAGIC, WRONG_MAGIC}, endian : {1, 2}, version : {1, 2},
     event_size : {32, 16}] \ {GoodIndexHeader}

WellFormedIndexFile ==
    IndexFileOf(GoodIndexHeader, <<10>>, CleanFooter, 0, "events_first", "events", "footer")

InvalidIndexFiles ==
    {IndexFileOf(h, <<10>>, CleanFooter, 0, "events_first", "events", "footer") :
        h \in BadIndexHeaders}
    \cup {SubSeq(WellFormedIndexFile, 1, n) : n \in {0, 1, INDEX_HEADER_SIZE - 1}}

(* Detail files: header | records | stray bytes | 64 reserved bytes. *)
DetailRecordBytes(total_length, index_seq, payload_len) ==
    PackU32(total_length) \o ToLE(3, 2) \o ToLE(0, 2) \o PackU32(index_seq) \o PackU32(7)
        \o ToLE(10, 8) \o [i \in 1..payload_len |-> i]

RECURSIVE DetailRecordsBytes(_, _)
DetailRecordsBytes(lens, seq) ==
    IF lens = <<>> THEN <<>>
    ELSE DetailRecordBytes(Head(lens), seq, Head(lens) - DETAIL_EVENT_HEADER_SIZE)
             \o DetailRecordsBytes(Tail(lens), seq + 1)

(* One detail file: the records of lengths lens written whole, then tail   *)
(* (stray bytes, or a record written wrong), then the 64 reserved bytes.   *)
DetailFileWithTail(hdr, lens, tail, eoAt) ==
    LET body == DetailRecordsBytes(lens, 0) \o tail \o Zeros(DETAIL_FOOTER_RESERVE)
        size == DETAIL_HEADER_SIZE + Len(body)
    IN  hdr.magic \o <<hdr.endian, hdr.version, 1, 4>> \o PackU32(0) \o PackU32(7)
            \o PackU32(0)
            \o ToLE(IF eoAt = "header_end" THEN DETAIL_HEADER_SIZE ELSE size + 1, 8)
            \o ToLE(Len(lens), 8) \o ToLE(Len(body), 8) \o ToLE(0, 8) \o ToLE(Len(lens), 8)
            \o Zeros(4) \o body

DetailFileOf(hdr, lens, stray, eoAt) == DetailFileWithTail(hdr, lens, Zeros(stray), eoAt)

GoodDetailHeader == [magic |-> DETAIL_MAGIC, endian |-> 1, version |-> 1]

ValidDetailFiles ==
    {DetailFileOf(GoodDetailHeader, lens, stray, eoAt) :
        lens \in SeqsUpTo({24, 32}, MaxRecords), stray \in {0, 10},
        eoAt \in {"header_end", "past_file"}}

(* What follows record k - 1 where a writer stopped in the middle: enough *)
(* zero bytes for a record header, a record whose length field is below    *)
(* the header size, a record whose length field runs into the reserved     *)
(* bytes, a record whose length field runs past the end of the file.       *)
BrokenTails(k) ==
    {Zeros(DETAIL_EVENT_HEADER_SIZE),
     DetailRecordBytes(8, k, 0),
     DetailRecordBytes(40, k, 8),
     DetailRecordBytes(200, k, 8)}

BrokenDetailFiles ==
    UNION {{DetailFileWithTail(GoodDetailHeader, lens, tail, "header_end") :
                tail \in BrokenTails(Len(lens))} :
           lens \in SeqsUpTo({24, 32}, MaxRecords - 1)}

(* Detail files whose records carry chosen index_seq values: record k has *)
(* index_seq iseqs[k + 1] and 8 * (k + 1) payload bytes, so no two records *)
(* of a file are alike.                                                    *)
RECURSIVE PairedRecordsBytes(_, _)
PairedRecordsBytes(iseqs, k) ==
    IF iseqs = <<>> THEN <<>>
    ELSE DetailRecordBytes(DETAIL_EVENT_HEADER_SIZE + 8 * (k + 1), Head(iseqs), 8 * (k + 1))
             \o PairedRecordsBytes(Tail(iseqs), k + 1)

PairedDetailFile(iseqs) ==
    LET f == DetailFileOf(GoodDetailHeader, <<>>, 0, "header_end")
    IN  SubSeq(f, 1, DETAIL_HEADER_SIZE) \o PairedRecordsBytes(iseqs, 0)
            \o Zeros(DETAIL_FOOTER_RESERVE)

PairedDetailFiles == {PairedDetailFile(iseqs) : iseqs \in SeqsUpTo({0, 1}, MaxRecords)}

(* Detail files that end before the 64 reserved bytes are complete. *)
ShortDetailFiles ==
    {SubSeq(DetailFileOf(GoodDetailHeader, <<>>, 0, "header_end"), 1, DETAIL_HEADER_SIZE + n) :
        n \in {0, 10}}

BadDetailHeaders ==
    [magic : {DETAIL_MAGIC, WRONG_MAGIC}, endian : {1, 2}, version : {1, 2}]
        \ {GoodDetailHeader}

InvalidDetailFiles ==
    {DetailFileOf(h, <<32>>, 0, "header_end") : h \in BadDetailHeaders}
    \cup {SubSeq(DetailFileOf(GoodDetailHeader, <<32>>, 0, "header_end"), 1, n) :
             n \in {0, DETAIL_HEADER_SIZE - 1}}

Files ==
    ValidIndexFiles \cup InvalidIndexFiles
        \cup ValidDetailFiles \cup BrokenDetailFiles \cup PairedDetailFiles
        \cup ShortDetailFiles \cup InvalidDetailFiles

---------------------------------------------------------------------------
(* thread.py: ThreadReader, opening.  d is a thread directory: its         *)
(* index.atf and, Optional, its detail.atf.                                *)

ThreadReader_init(d) ==
    LET index == IndexReader_init(d.index)
        detail == DetailReader_init(d.detail[1])
    IN  IF index.exc # "none" THEN Raise(index.exc)
        ELSE IF d.detail = <<>> THEN Ok([index |-> index.val[1], detail |-> <<>>])
        ELSE IF detail.exc # "none" THEN Raise(detail.exc)
        ELSE Ok([index |-> index.val[1], detail |-> <<detail.val[1]>>])

(* What ThreadReader.__init__ has acquired for slot when it returns or     *)
(* raises: the index reader's handles, and the detail reader's once the    *)
(* index reader is built and detail.atf exists.                            *)
ThreadReader_acquired(d, slot) ==
    Handles(slot, "index", IndexReader_acquired(d.index))
        \cup (IF IndexReader_init(d.index).exc = "none" /\ d.detail # <<>>
              THEN Handles(slot, "detail", DetailReader_acquired(d.detail[1]))
              ELSE {})

(* A forward lookup that takes detail_seq 0 for the "no detail" mark. *)
ThreadReader_get_detail_for_ZeroSentinel(t, index_event) ==
    IF index_event.detail_seq = 0 THEN Ok(<<>>)
    ELSE IF t.detail = <<>> THEN Ok(<<>>)
    ELSE IF DetailReader_len(t.detail[1]) = 0 THEN Ok(<<>>)
    ELSE DetailReader_get(t.detail[1], index_event.detail_seq)

(* ThreadReader.get_detail_for: "not self.detail" is true for None and,    *)
(* DetailReader having __len__, for a detail reader with an empty table.   *)
ThreadReader_get_detail_for(t, index_event) ==
    IF index_event.detail_seq = ATF_NO_DETAIL_SEQ THEN Ok(<<>>)
    ELSE IF t.detail = <<>> THEN Ok(<<>>)
    ELSE IF DetailReader_len(t.detail[1]) = 0 THEN Ok(<<>>)
    ELSE DetailReader_get(t.detail[1], index_event.detail_seq)

(* A backward lookup that always answers with the first index event. *)
ThreadReader_get_index_for_First(t, detail_event) ==
    IndexReader_getitem(t.index, 0)

ThreadReader_get_index_for(t, detail_event) ==
    IndexReader_getitem(t.index, detail_event.header.index_seq)

ThreadReader_time_range(t) == IndexReader_time_range(t.index)

(* ThreadReader.close: "if self.detail:" skips a detail reader with an     *)
(* empty table.  The exception, and the reader afterwards.                 *)
ThreadReader_close(t) ==
    LET index == IndexReader_close(t.index)
        detail == DetailReader_close(t.detail[1])
    IN  IF index.exc # "none" THEN [exc |-> index.exc, reader |-> t]
        ELSE IF t.detail = <<>> \/ DetailReader_len(t.detail[1]) = 0
        THEN [exc |-> "none", reader |-> [t EXCEPT !.index = index.reader]]
        ELSE [exc |-> detail.exc,
              reader |-> [index |-> index.reader, detail |-> <<detail.reader>>]]

---------------------------------------------------------------------------
(* session.py: SessionReader and MergedEventIter *)

(* The loop of SessionReader.__init__ over manifest.threads: infos are the *)
(* declared threads still to load, threads the readers loaded so far.      *)
RECURSIVE SessionReader_load(_, _)
SessionReader_load(infos, threads) ==
    IF infos = <<>> THEN Ok([threads |-> threads])
    ELSE IF ~Head(infos).exists THEN SessionReader_load(Tail(infos), threads)
    ELSE LET t == ThreadReader_init(Head(infos))
         IN  IF t.exc # "none" THEN Raise(t.exc)
             ELSE SessionReader_load(Tail(infos), Append(threads, t.val[1]))

(* What the loop of SessionReader.__init__ has acquired from slot on when  *)
(* it ends or raises: every thread reader built, and the one that raised.  *)
RECURSIVE SessionReader_acquired(_, _)
SessionReader_acquired(infos, slot) ==
    IF infos = <<>> THEN {}
    ELSE IF ~Head(infos).exists THEN SessionReader_acquired(Tail(infos), slot)
    ELSE ThreadReader_acquired(Head(infos), slot)
             \cup (IF ThreadReader_init(Head(infos)).exc # "none" THEN {}
                   ELSE SessionReader_acquired(Tail(infos), slot + 1))

(* Manifest.from_dict on the value parsed from manifest.json: data.threads *)
(* is "list" for a list of objects with an 'id' (infos), "int" for a       *)
(* number, "str" for a non-empty string; data.ids is "int" or "str".       *)
(* Iterating a number and subscripting a character with 'id' raise         *)
(* TypeError; ids and the two time fields are stored as they come.         *)
Manifest_from_dict(data, infos) ==
    IF data.threads = "int" THEN Raise("TypeError")
    ELSE IF data.threads = "str" THEN Raise("TypeError")
    ELSE Ok([threads       |-> infos,
             time_start_ns |-> data.time_start_ns,
             time_end_ns   |-> data.time_end_ns])

Reverse(q) == [i \in 1..Len(q) |-> q[Len(q) + 1 - i]]

(* A loading that walks the manifest backwards. *)
SessionReader_init_Backwards(infos) == SessionReader_load(Reverse(infos), <<>>)

SessionReader_init(infos) == SessionReader_load(infos, <<>>)

(* SessionReader.__init__ from the parsed manifest.json on. *)
SessionReader_open(data, infos) ==
    LET m == Manifest_from_dict(data, infos)
    IN  IF m.exc # "none" THEN Raise(m.exc) ELSE SessionReader_init(m.val[1].threads)

(* The loop of SessionReader.close from the k-th thread reader on: the     *)
(* exception, and the session afterwards.                                  *)
RECURSIVE SessionReader_close_from(_, _)
SessionReader_close_from(s, k) ==
    IF k > Len(s.threads) THEN [exc |-> "none", reader |-> s]
    ELSE LET c == ThreadReader_close(s.threads[k])
             closed == [s EXCEPT !.threads[k] = c.reader]
         IN  IF c.exc # "none" THEN [exc |-> c.exc, reader |-> closed]
             ELSE SessionReader_close_from(closed, k + 1)

SessionReader_close(s) == SessionReader_close_from(s, 1)

(* The loop of SessionReader.time_range: min_time is Optional, <<>> being  *)
(* float('inf'), which min() replaces by the first start it meets.         *)
RECURSIVE SessionReader_fold(_, _, _)
SessionReader_fold(threads, min_time, max_time) ==
    IF threads = <<>> THEN <<min_time[1], max_time>>
    ELSE LET range == ThreadReader_time_range(Head(threads))
             start == range[1]
             end == range[2]
         IN  SessionReader_fold(Tail(threads),
                 IF min_time = <<>> \/ start < min_time[1] THEN <<start>> ELSE min_time,
                 IF end > max_time THEN end ELSE max_time)

(* A time range taken from the first thread alone. *)
SessionReader_time_range_FirstThread(s) ==
    IF s.threads = <<>> THEN <<0, 0>>
    ELSE ThreadReader_time_range(s.threads[1])

SessionReader_time_range(s) ==
    IF s.threads = <<>> THEN <<0, 0>>
    ELSE SessionReader_fold(s.threads, <<>>, 0)

(* sum(len(thread.index) for thread in self.threads) *)
RECURSIVE SessionReader_sum(_)
SessionReader_sum(threads) ==
    IF threads = <<>> THEN Ok(0)
    ELSE LET n == IndexReader_len(Head(threads).index)
             rest == SessionReader_sum(Tail(threads))
         IN  IF n.exc # "none" THEN Raise(n.exc)
             ELSE IF rest.exc # "none" THEN Raise(rest.exc)
             ELSE Ok(n.val[1] + rest.val[1])

SessionReader_event_count(s) == SessionReader_sum(s.threads)

(* A heap order that compares thread_idx before the timestamp. *)
TupleLess_SlotFirst(a, b) ==
    \/ a[2] < b[2]
    \/ a[2] = b[2] /\ a[1] < b[1]
    \/ a[2] = b[2] /\ a[1] = b[1] /\ a[3] < b[3]

(* A heap order that breaks a timestamp tie by the higher thread_idx. *)
TupleLess_HighSlotFirst(a, b) ==
    \/ a[1] < b[1]
    \/ a[1] = b[1] /\ a[2] > b[2]
    \/ a[1] = b[1] /\ a[2] = b[2] /\ a[3] < b[3]

(* Python's order on the heap's tuples (timestamp, thread_idx, seq). *)
TupleLess(a, b) ==
    \/ a[1] < b[1]
    \/ a[1] = b[1] /\ a[2] < b[2]
    \/ a[1] = b[1] /\ a[2] = b[2] /\ a[3] < b[3]

(* heapq on a list: heappop returns the least item.  The list is kept in   *)
(* ascending order, which returns the items in the order heapq does.       *)
heappush(heap, item) ==
    LET k == Cardinality({i \in 1..Len(heap) : ~TupleLess(item, heap[i])})
    IN  SubSeq(heap, 1, k) \o <<item>> \o SubSeq(heap, k + 1, Len(heap))

heappop(heap) == [item |-> Head(heap), heap |-> Tail(heap)]

(* The seeding loop of MergedEventIter.__init__ from thread idx on. *)
RECURSIVE MergedEventIter_seed(_, _, _)
MergedEventIter_seed(threads, idx, heap) ==
    IF idx >= Len(threads) THEN Ok([heap |-> heap])
    ELSE LET index == threads[idx + 1].index
             n == IndexReader_len(index)
             event == IndexReader_getitem(index, 0)
         IN  IF n.exc # "none" THEN Raise(n.exc)
             ELSE IF ~(n.val[1] > 0) THEN MergedEventIter_seed(threads, idx + 1, heap)
             ELSE IF event.exc # "none" THEN Raise(event.exc)
             ELSE MergedEventIter_seed(threads, idx + 1,
                      heappush(heap, <<event.val[1].timestamp_ns, idx, 0>>))

MergedEventIter_init(threads) == MergedEventIter_seed(threads, 0, <<>>)

(* A successor that stays on the sequence number just popped. *)
NextSeq_Repeat(seq) == seq

(* next_seq = seq + 1 *)
NextSeq(seq) == seq + 1

(* MergedEventIter.__next__: the exception or the (thread_idx, event)      *)
(* returned, the heap left behind, and the sequence number popped.         *)
MergedEventIter_next(it, threads) ==
    LET popped == heappop(it.heap)
        thread_idx == popped.item[2]
        seq == popped.item[3]
        index == threads[thread_idx + 1].index
        event == IndexReader_getitem(index, seq)
        next_seq == NextSeq(seq)
        n == IndexReader_len(index)
        next_event == IndexReader_getitem(index, next_seq)
        fail(e) == [exc |-> e, val |-> <<>>, heap |-> popped.heap, seq |-> seq]
        done(h) == [exc |-> "none", val |-> <<thread_idx, event.val[1]>>,
                    heap |-> h, seq |-> seq]
    IN  IF it.heap = <<>>
        THEN [exc |-> "StopIteration", val |-> <<>>, heap |-> it.heap, seq |-> 0]
        ELSE IF event.exc # "none" THEN fail(event.exc)
        ELSE IF n.exc # "none" THEN fail(n.exc)
        ELSE IF ~(next_seq < n.val[1]) THEN done(popped.heap)
        ELSE IF next_event.exc # "none" THEN fail(next_event.exc)
        ELSE done(heappush(popped.heap,
                           <<next_event.val[1].timestamp_ns, thread_idx, next_seq>>))

---------------------------------------------------------------------------
(* The sessions the runs are given: the threads of the manifest in         *)
(* declared order.  A directory may be missing; at most one thread's index *)
(* is damaged: a footer overstating the count (with the record it adds     *)
(* past the end of the file, or inside the footer), an events_offset past  *)
(* the file, a header that fails validation.                               *)

ThreadDir(bytes) == [exists |-> TRUE, index |-> bytes, detail |-> <<>>]

MissingDir == [exists |-> FALSE, index |-> <<>>, detail |-> <<>>]

CleanThreadDirs ==
    {ThreadDir(IndexFileOf(GoodIndexHeader, ev, CleanFooter, 0,
                           "events_first", "events", "footer")) :
        ev \in SeqsUpTo(Timestamps, MaxEvents)}
    \cup {MissingDir}

Overstated == <<[magic |-> INDEX_FOOTER_MAGIC, extra |-> 1]>>

DamagedThreadDirs ==
    {ThreadDir(IndexFileOf(GoodIndexHeader, ev, Overstated, 0,
                           "footer_first", "events", "footer")) :
        ev \in SeqsUpTo(Timestamps, 1)}
    \cup {ThreadDir(IndexFileOf(GoodIndexHeader, <<10>>, Overstated, 0,
                                "events_first", "events", "footer")),
          ThreadDir(IndexFileOf(GoodIndexHeader, <<10>>, <<>>, 0,
                                "events_first", "past_file", "footer")),
          ThreadDir(IndexFileOf([GoodIndexHeader EXCEPT !.version = 2], <<10>>, CleanFooter,
                                0, "events_first", "events", "footer"))}

(* A manifest.json of the documented shape, and its time fields. *)
GoodJson == [threads |-> "list", ids |-> "int", time_start_ns |-> 10, time_end_ns |-> 50]

(* What manifest.json may hold instead: a start after the end, a thread   *)
(* id that is a string, a threads field that is a number or a string.      *)
JsonShapes ==
    {GoodJson,
     [GoodJson EXCEPT !.time_start_ns = 50, !.time_end_ns = 10],
     [GoodJson EXCEPT !.ids = "str"],
     [GoodJson EXCEPT !.threads = "int"],
     [GoodJson EXCEPT !.threads = "str"]}

Manifests ==
    LET clean == CleanThreadDirs
        damaged == DamagedThreadDirs
    IN  UNION {[1..k -> clean]
                   \cup {[m EXCEPT ![i] = d] : m \in [1..k -> clean], i \in 1..k, d \in damaged} :
               k \in 0..MaxThreads}

(* Thread directories whose index events and detail records point at each *)
(* other, rightly or wrongly.  dseqs: the detail_seq of each index event;  *)
(* iseqs: the index_seq of each detail record.                             *)
RECURSIVE PairedEventsBytes(_, _)
PairedEventsBytes(dseqs, seq) ==
    IF dseqs = <<>> THEN <<>>
    ELSE ToLE(10 + seq, 8) \o ToLE(seq + 1, 8) \o PackU32(7) \o PackU32(1) \o PackU32(0)
             \o PackU32(Head(dseqs)) \o PairedEventsBytes(Tail(dseqs), seq + 1)

PairedIndexFile(dseqs) ==
    LET f == IndexFileOf(GoodIndexHeader, [i \in 1..Len(dseqs) |-> 10], CleanFooter, 0,
                         "events_first", "events", "footer")
        eventsEnd == INDEX_HEADER_SIZE + INDEX_EVENT_SIZE * Len(dseqs)
    IN  SubSeq(f, 1, INDEX_HEADER_SIZE) \o PairedEventsBytes(dseqs, 0)
            \o SubSeq(f, eventsEnd + 1, Len(f))

PairedThreadDirs ==
    LET indexes == {PairedIndexFile(dseqs) :
                       dseqs \in SeqsUpTo({ATF_NO_DETAIL_SEQ, 0, 1}, MaxEvents)}
        details == {<<>>} \cup {<<PairedDetailFile(iseqs)>> :
                                   iseqs \in SeqsUpTo({0, 1}, MaxRecords)}
    IN  {[exists |-> TRUE, index |-> i, detail |-> d] : i \in indexes, d \in details}

(* The thread directories of the sessions that are opened, read and        *)
(* closed: MaxEvents events of alternating timestamps and no detail file;  *)
(* one event with a detail file of one record, of no record, of a wrong    *)
(* magic; an index file of an unsupported version; an index file whose     *)
(* footer counts one event too many.                                       *)
LifeIndexFile(ev) ==
    IndexFileOf(GoodIndexHeader, ev, CleanFooter, 0, "events_first", "events", "footer")

LifeThreadDirs ==
    {ThreadDir(LifeIndexFile([i \in 1..MaxEvents |-> IF i % 2 = 1 THEN 20 ELSE 10])),
     [exists |-> TRUE, index |-> LifeIndexFile(<<10>>),
      detail |-> <<PairedDetailFile(<<0>>)>>],
     [exists |-> TRUE, index |-> LifeIndexFile(<<10>>),
      detail |-> <<PairedDetailFile(<<>>)>>],
     [exists |-> TRUE, index |-> LifeIndexFile(<<10>>),
      detail |-> <<DetailFileOf([GoodDetailHeader EXCEPT !.magic = WRONG_MAGIC],
                                <<32>>, 0, "header_end")>>],
     ThreadDir(IndexFileOf([GoodIndexHeader EXCEPT !.version = 2], <<10>>, CleanFooter,
                           0, "events_first", "events", "footer")),
     ThreadDir(IndexFileOf(GoodIndexHeader, <<10>>, Overstated, 0,
                           "footer_first", "events", "footer"))}

LifeManifests == UNION {[1..k -> LifeThreadDirs] : k \in 0..MaxThreads}

---------------------------------------------------------------------------
(* Runs *)

NoRes == [op |-> "none", arg |-> 0, exc |-> "none", val |-> <<>>]

Res(op, arg, r) == [op |-> op, arg |-> arg, exc |-> r.exc, val |-> r.val]

(* A session directory on disk, nothing opened. *)
Init ==
    /\ manifest \in Manifests
    /\ file = <<>>
    /\ pc = "start"
    /\ ireader = <<>> /\ dreader = <<>> /\ thread = <<>>
    /\ session = <<>> /\ iter = <<>> /\ out = <<>> /\ other = <<>>
    /\ json = GoodJson /\ held = {}
    /\ res = NoRes

(* SessionReader(session_dir) *)
SessionOpen ==
    /\ pc = "start"
    /\ LET r == SessionReader_open(json, manifest)
       IN  /\ session' = r.val
           /\ pc' = IF r.exc = "none" THEN "session" ELSE "failed"
           /\ held' = IF r.exc = "none" \/ Manifest_from_dict(json, manifest).exc # "none"
                      THEN {}
                      ELSE SessionReader_acquired(manifest, 0)
           /\ res' = [op |-> "SessionReader", arg |-> 0, exc |-> r.exc, val |-> <<>>]
    /\ UNCHANGED <<file, ireader, dreader, manifest, json, thread, iter, out, other>>

(* session.event_count() *)
EventCount ==
    /\ pc = "session"
    /\ res' = Res("event_count", 0, SessionReader_event_count(session[1]))
    /\ UNCHANGED <<file, pc, ireader, dreader, manifest, json, held, thread,
                   session, iter, out, other>>

(* session.time_range() *)
TimeRange ==
    /\ pc = "session"
    /\ res' = Res("time_range", 0, Ok(SessionReader_time_range(session[1])))
    /\ UNCHANGED <<file, pc, ireader, dreader, manifest, json, held, thread,
                   session, iter, out, other>>

(* session.merged_iter() *)
MergedIter ==
    /\ pc = "session"
    /\ LET r == MergedEventIter_init(session[1].threads)
       IN  /\ iter' = r.val
           /\ pc' = IF r.exc = "none" THEN "iterating" ELSE pc
           /\ res' = [op |-> "merged_iter", arg |-> 0, exc |-> r.exc, val |-> <<>>]
    /\ UNCHANGED <<file, ireader, dreader, manifest, json, held, thread,
                   session, out, other>>

(* A next(it) that moves the read position of the thread reader it pops. *)
IterNext_Advancing ==
    /\ pc = "iterating"
    /\ LET r == MergedEventIter_next(iter[1], session[1].threads)
       IN  /\ iter' = <<[heap |-> r.heap]>>
           /\ out' = IF r.exc = "none"
                     THEN Append(out, [slot |-> r.val[1], seq |-> r.seq, event |-> r.val[2]])
                     ELSE out
           /\ session' = IF r.exc = "none"
                         THEN <<[session[1] EXCEPT
                                    !.threads[r.val[1] + 1].index.header.events_offset =
                                        @ + INDEX_EVENT_SIZE]>>
                         ELSE session
           /\ res' = [op |-> "next", arg |-> 0, exc |-> r.exc, val |-> r.val]
    /\ UNCHANGED <<file, pc, ireader, dreader, manifest, json, held, thread, other>>

(* next(it) *)
IterNext ==
    /\ pc = "iterating"
    /\ LET r == MergedEventIter_next(iter[1], session[1].threads)
       IN  /\ iter' = <<[heap |-> r.heap]>>
           /\ out' = IF r.exc = "none"
                     THEN Append(out, [slot |-> r.val[1], seq |-> r.seq, event |-> r.val[2]])
                     ELSE out
           /\ res' = [op |-> "next", arg |-> 0, exc |-> r.exc, val |-> r.val]
    /\ UNCHANGED <<file, pc, ireader, dreader, manifest, json, held, thread,
                   session, other>>

(* Garbage collection: the readers a constructor that raised left half     *)
(* built are reclaimed, and their handles with them, at a moment the       *)
(* program does not choose.                                                *)
Collect ==
    /\ pc = "failed" /\ held # {}
    /\ held' = {}
    /\ UNCHANGED <<file, pc, ireader, dreader, manifest, json, thread, session, iter, out,
                   other, res>>

Next == SessionOpen \/ Collect \/ EventCount \/ TimeRange \/ MergedIter \/ IterNext

Spec == Init /\ [][Next]_vars

(* One file on disk, opened by one reader. *)
InitFile ==
    /\ file \in Files
    /\ manifest = <<>>
    /\ pc = "start"
    /\ ireader = <<>> /\ dreader = <<>> /\ thread = <<>>
    /\ session = <<>> /\ iter = <<>> /\ out = <<>> /\ other = <<>>
    /\ json = GoodJson /\ held = {}
    /\ res = NoRes

(* IndexReader(path) *)
IndexOpen ==
    /\ pc = "start"
    /\ LET r == IndexReader_init(file)
       IN  /\ ireader' = r.val
           /\ pc' = IF r.exc = "none" THEN "index" ELSE "failed"
           /\ held' = IF r.exc = "none" THEN {}
                      ELSE Handles(0, "index", IndexReader_acquired(file))
           /\ res' = [op |-> "IndexReader", arg |-> 0, exc |-> r.exc, val |-> <<>>]
    /\ UNCHANGED <<file, dreader, manifest, json, thread, session, iter, out, other>>

(* len(reader) *)
IndexLen ==
    /\ pc = "index"
    /\ res' = Res("len", 0, IndexReader_len(ireader[1]))
    /\ UNCHANGED <<file, pc, ireader, dreader, manifest, json, held, thread,
                   session, iter, out, other>>

(* reader[seq] *)
IndexGet ==
    /\ pc = "index"
    /\ \E seq \in -1..(MaxEvents + 3) :
           res' = Res("getitem", seq, IndexReader_getitem(ireader[1], seq))
    /\ UNCHANGED <<file, pc, ireader, dreader, manifest, json, held, thread,
                   session, iter, out, other>>

(* reader.time_range() *)
IndexTimeRange ==
    /\ pc = "index"
    /\ res' = Res("time_range", 0, Ok(IndexReader_time_range(ireader[1])))
    /\ UNCHANGED <<file, pc, ireader, dreader, manifest, json, held, thread,
                   session, iter, out, other>>

(* DetailReader(path) *)
DetailOpen ==
    /\ pc = "start"
    /\ LET r == DetailReader_init(file)
       IN  /\ dreader' = r.val
           /\ pc' = IF r.exc = "none" THEN "detail" ELSE "failed"
           /\ held' = IF r.exc = "none" THEN {}
                      ELSE Handles(0, "detail", DetailReader_acquired(file))
           /\ res' = [op |-> "DetailReader", arg |-> 0, exc |-> r.exc, val |-> <<>>]
    /\ UNCHANGED <<file, ireader, manifest, json, thread, session, iter, out, other>>

(* len(detail) *)
DetailLen ==
    /\ pc = "detail"
    /\ res' = Res("len", 0, Ok(DetailReader_len(dreader[1])))
    /\ UNCHANGED <<file, pc, ireader, dreader, manifest, json, held, thread,
                   session, iter, out, other>>

(* detail.get(detail_seq) *)
DetailGet ==
    /\ pc = "detail"
    /\ \E detail_seq \in -1..(MaxRecords + 1) :
           res' = Res("get", detail_seq, DetailReader_get(dreader[1], detail_seq))
    /\ UNCHANGED <<file, pc, ireader, dreader, manifest, json, held, thread,
                   session, iter, out, other>>

(* detail.get_by_index_seq(index_seq) *)
DetailGetByIndexSeq ==
    /\ pc = "detail"
    /\ \E index_seq \in 0..MaxRecords :
           res' = Res("get_by_index_seq", index_seq,
                      DetailReader_get_by_index_seq(dreader[1], index_seq))
    /\ UNCHANGED <<file, pc, ireader, dreader, manifest, json, held, thread,
                   session, iter, out, other>>

(* reader.close() on the index reader *)
IndexClose ==
    /\ pc = "index"
    /\ LET r == IndexReader_close(ireader[1])
       IN  /\ ireader' = <<r.reader>>
           /\ res' = [op |-> "close", arg |-> 0, exc |-> r.exc, val |-> <<>>]
    /\ UNCHANGED <<file, pc, dreader, manifest, json, held, thread, session,
                   iter, out, other>>

(* detail.close() *)
DetailClose ==
    /\ pc = "detail"
    /\ LET r == DetailReader_close(dreader[1])
       IN  /\ dreader' = <<r.reader>>
           /\ res' = [op |-> "close", arg |-> 0, exc |-> r.exc, val |-> <<>>]
    /\ UNCHANGED <<file, pc, ireader, manifest, json, held, thread, session,
                   iter, out, other>>

NextFile ==
    \/ IndexOpen \/ IndexLen \/ IndexGet \/ IndexTimeRange \/ IndexClose
    \/ DetailOpen \/ DetailLen \/ DetailGet \/ DetailGetByIndexSeq \/ DetailClose
    \/ Collect

SpecFile == InitFile /\ [][NextFile]_vars

(* One thread directory on disk, opened by a thread reader. *)
InitThread ==
    /\ manifest \in {<<d>> : d \in PairedThreadDirs}
    /\ file = <<>>
    /\ pc = "start"
    /\ ireader = <<>> /\ dreader = <<>> /\ thread = <<>>
    /\ session = <<>> /\ iter = <<>> /\ out = <<>> /\ other = <<>>
    /\ json = GoodJson /\ held = {}
    /\ res = NoRes

(* ThreadReader(thread_dir) *)
ThreadOpen ==
    /\ pc = "start"
    /\ LET r == ThreadReader_init(manifest[1])
       IN  /\ thread' = r.val
           /\ pc' = IF r.exc = "none" THEN "thread" ELSE "failed"
           /\ held' = IF r.exc = "none" THEN {} ELSE ThreadReader_acquired(manifest[1], 0)
           /\ res' = [op |-> "ThreadReader", arg |-> 0, exc |-> r.exc, val |-> <<>>]
    /\ UNCHANGED <<file, ireader, dreader, manifest, json, session, iter, out, other>>

(* The index event thread.index[seq], as read while the reader was open. *)
IndexEventAt(t, seq) == IndexReader_getitem([t.index EXCEPT !.closed = FALSE], seq)

(* The detail event thread.detail.get(k), as read while the reader was     *)
(* open; <<>> when the thread has no detail reader.                        *)
DetailEventAt(t, k) ==
    IF t.detail = <<>> THEN Ok(<<>>)
    ELSE DetailReader_get([t.detail[1] EXCEPT !.closed = FALSE], k)

(* thread.get_detail_for(e), e an index event of the thread *)
GetDetailFor ==
    /\ pc = "thread"
    /\ \E seq \in 0..(MaxEvents - 1) :
           LET e == IndexEventAt(thread[1], seq)
           IN  /\ e.exc = "none"
               /\ res' = Res("get_detail_for", seq,
                             ThreadReader_get_detail_for(thread[1], e.val[1]))
    /\ UNCHANGED <<file, pc, ireader, dreader, manifest, json, held, thread,
                   session, iter, out, other>>

(* thread.get_index_for(d), d a detail event of the thread *)
GetIndexFor ==
    /\ pc = "thread"
    /\ \E k \in 0..(MaxRecords - 1) :
           LET d == DetailEventAt(thread[1], k)
           IN  /\ d.exc = "none" /\ d.val[1] # <<>>
               /\ res' = Res("get_index_for", k,
                             ThreadReader_get_index_for(thread[1], d.val[1][1]))
    /\ UNCHANGED <<file, pc, ireader, dreader, manifest, json, held, thread,
                   session, iter, out, other>>

(* thread.time_range() *)
ThreadTimeRange ==
    /\ pc = "thread"
    /\ res' = Res("time_range", 0, Ok(ThreadReader_time_range(thread[1])))
    /\ UNCHANGED <<file, pc, ireader, dreader, manifest, json, held, thread,
                   session, iter, out, other>>

(* thread.close() *)
ThreadClose ==
    /\ pc = "thread"
    /\ LET r == ThreadReader_close(thread[1])
       IN  /\ thread' = <<r.reader>>
           /\ res' = [op |-> "close", arg |-> 0, exc |-> r.exc, val |-> <<>>]
    /\ UNCHANGED <<file, pc, ireader, dreader, manifest, json, held, session,
                   iter, out, other>>

NextThread == ThreadOpen \/ GetDetailFor \/ GetIndexFor \/ ThreadTimeRange \/ ThreadClose

SpecThread == InitThread /\ [][NextThread]_vars

(* The life of a session: a session directory whose threads have no, a    *)
(* good, an empty or a bad detail file, opened from a manifest.json of any *)
(* shape (the other shapes with one thread at most), read through its      *)
(* thread readers and two merged iterators, and closed.                    *)
InitLife ==
    /\ manifest \in LifeManifests
    /\ json \in (IF Len(manifest) <= 1 THEN JsonShapes ELSE {GoodJson})
    /\ json.ids = "str" => manifest # <<>>
    /\ file = <<>>
    /\ pc = "start"
    /\ ireader = <<>> /\ dreader = <<>> /\ thread = <<>>
    /\ session = <<>> /\ iter = <<>> /\ out = <<>> /\ other = <<>>
    /\ held = {}
    /\ res = NoRes

(* A second merged_iter() that hands out the iterator of the first call. *)
MergedIterAgain_Shared ==
    /\ pc = "iterating"
    /\ other' = <<[heap |-> iter[1].heap, out |-> <<>>]>>
    /\ res' = [op |-> "merged_iter", arg |-> 1, exc |-> "none", val |-> <<>>]
    /\ UNCHANGED <<file, pc, ireader, dreader, manifest, json, held, thread, session,
                   iter, out>>

(* session.merged_iter() once more, while the first iterator is in use *)
MergedIterAgain ==
    /\ pc = "iterating"
    /\ LET r == MergedEventIter_init(session[1].threads)
       IN  /\ other' = IF r.exc = "none"
                       THEN <<[heap |-> r.val[1].heap, out |-> <<>>]>>
                       ELSE other
           /\ res' = [op |-> "merged_iter", arg |-> 1, exc |-> r.exc, val |-> <<>>]
    /\ UNCHANGED <<file, pc, ireader, dreader, manifest, json, held, thread, session,
                   iter, out>>

(* next(it) on the second iterator *)
OtherNext ==
    /\ pc = "iterating" /\ other # <<>>
    /\ LET r == MergedEventIter_next(other[1], session[1].threads)
       IN  /\ other' = <<[heap |-> r.heap,
                          out  |-> IF r.exc = "none"
                                   THEN Append(other[1].out,
                                               [slot |-> r.val[1], seq |-> r.seq,
                                                event |-> r.val[2]])
                                   ELSE other[1].out]>>
           /\ res' = [op |-> "next", arg |-> 1, exc |-> r.exc, val |-> r.val]
    /\ UNCHANGED <<file, pc, ireader, dreader, manifest, json, held, thread, session,
                   iter, out>>

(* session.threads[slot].get_detail_for(session.threads[slot].index[seq]) *)
SessionDetailFor ==
    /\ pc = "session"
    /\ \E slot \in 1..Len(session[1].threads), seq \in 0..(MaxEvents - 1) :
           LET t == session[1].threads[slot]
               e == IndexReader_getitem(t.index, seq)
           IN  /\ e.exc = "none"
               /\ res' = Res("get_detail_for", seq,
                             ThreadReader_get_detail_for(t, e.val[1]))
    /\ UNCHANGED <<file, pc, ireader, dreader, manifest, json, held, thread, session,
                   iter, out, other>>

(* session.threads[slot].get_index_for(session.threads[slot].detail.get(k)) *)
SessionIndexFor ==
    /\ pc = "session"
    /\ \E slot \in 1..Len(session[1].threads), k \in 0..(MaxRecords - 1) :
           LET t == session[1].threads[slot]
               d == DetailReader_get(t.detail[1], k)
           IN  /\ t.detail # <<>>
               /\ d.exc = "none" /\ d.val[1] # <<>>
               /\ res' = Res("get_index_for", k,
                             ThreadReader_get_index_for(t, d.val[1][1]))
    /\ UNCHANGED <<file, pc, ireader, dreader, manifest, json, held, thread, session,
                   iter, out, other>>

(* session.threads[slot].detail.get_by_index_seq(index_seq) *)
SessionByIndexSeq ==
    /\ pc = "session"
    /\ \E slot \in 1..Len(session[1].threads), index_seq \in 0..(MaxRecords - 1) :
           LET t == session[1].threads[slot]
           IN  /\ t.detail # <<>>
               /\ res' = Res("get_by_index_seq", index_seq,
                             DetailReader_get_by_index_seq(t.detail[1], index_seq))
    /\ UNCHANGED <<file, pc, ireader, dreader, manifest, json, held, thread, session,
                   iter, out, other>>

(* session.close() *)
SessionClose ==
    /\ pc \in {"session", "iterating"}
    /\ LET r == SessionReader_close(session[1])
       IN  /\ session' = <<r.reader>>
           /\ pc' = "closed"
           /\ res' = [op |-> "close", arg |-> 0, exc |-> r.exc, val |-> <<>>]
    /\ UNCHANGED <<file, ireader, dreader, manifest, json, held, thread, iter, out, other>>

NextLife ==
    \/ SessionOpen \/ Collect \/ EventCount \/ TimeRange
    \/ MergedIter \/ IterNext \/ MergedIterAgain \/ OtherNext
    \/ SessionDetailFor \/ SessionIndexFor \/ SessionByIndexSeq
    \/ SessionClose

SpecLife == InitLife /\ [][NextLife]_vars

---------------------------------------------------------------------------
(* Properties of the merged iteration (specification Spec) *)

Timestamp(i) == out[i].event.timestamp_ns

(* The events of one thread reader that can be read have non-decreasing    *)
(* timestamps in sequence order.                                           *)
ThreadSorted(t) ==
    \A i, j \in 0..(t.index.event_count - 1) :
        LET a == IndexReader_getitem(t.index, i)
            b == IndexReader_getitem(t.index, j)
        IN  (i < j /\ a.exc = "none" /\ b.exc = "none")
                => a.val[1].timestamp_ns <= b.val[1].timestamp_ns

AllThreadsSorted ==
    \A k \in 1..Len(session[1].threads) : ThreadSorted(session[1].threads[k])

Yielded(s, n) == Cardinality({j \in 1..n : out[j].slot = s})

(* C2: the k-th event returned for a thread slot is the event at sequence  *)
(* k - 1 of that thread's index (0, 1, 2, ... with none skipped or         *)
(* repeated), whatever the timestamps are.                                 *)
C2_PerThreadSequenceOrder ==
    \A i \in 1..Len(out) :
        LET k == Yielded(out[i].slot, i - 1)
            at == IndexReader_getitem(session[1].threads[out[i].slot + 1].index, k)
        IN  /\ out[i].seq = k
            /\ at.exc = "none"
            /\ out[i].event = at.val[1]

(* Two events of one slot returned in file order although the second has   *)
(* the smaller timestamp.                                                  *)
C2_Witness ==
    \E i, j \in 1..Len(out) :
        /\ i < j
        /\ out[i].slot = out[j].slot
        /\ out[i].seq = 0 /\ out[j].seq = 1
        /\ Timestamp(i) > Timestamp(j)

(* C3: a next() that returns an event of slot s never passes over a        *)
(* pending event (a heap entry) of a lower slot with the same timestamp.   *)
C3_TieLowerSlotFirst ==
    [][(pc = "iterating" /\ Len(out') = Len(out) + 1) =>
          \A k \in 1..Len(iter[1].heap) :
              LET e == iter[1].heap[k]
                  y == out'[Len(out')]
              IN  (e[1] = y.event.timestamp_ns /\ e[2] # y.slot) => y.slot < e[2]]_vars

(* The first events of two slots tie and both have been returned. *)
C3_Witness ==
    /\ Len(out) >= 2
    /\ out[1].seq = 0 /\ out[2].seq = 0
    /\ Timestamp(1) = Timestamp(2)
    /\ out[1].slot < out[2].slot

(* C4 as claimed: when next() signals the end of the iteration, exactly    *)
(* event_count() events have been returned.                                *)
C4_EndsAfterEventCount ==
    (res.op = "next" /\ res.exc = "StopIteration") =>
        LET n == SessionReader_event_count(session[1])
        IN  n.exc = "none" /\ Len(out) = n.val[1]

(* The declared threads whose directory exists, in manifest order. *)
ExistingDirs == SelectSeq(manifest, LAMBDA d : d.exists)

(* C17: an opened session holds one thread reader for each declared thread *)
(* whose directory exists and none for the others, in manifest order (the  *)
(* k-th reader maps the index file of the k-th existing directory), and    *)
(* the slot the merged iterator reports with an event is the position of   *)
(* the event's thread reader in that list, counted from 0.                 *)
C17_SlotsAreLoadedThreads ==
    /\ session # <<>> =>
           /\ Len(session[1].threads) = Len(ExistingDirs)
           /\ \A k \in 1..Len(ExistingDirs) :
                  /\ session[1].threads[k].index.mmap = ExistingDirs[k].index
                  /\ (session[1].threads[k].detail = <<>>) = (ExistingDirs[k].detail = <<>>)
    /\ \A i \in 1..Len(out) :
           /\ out[i].slot + 1 \in 1..Len(session[1].threads)
           /\ out[i].event =
                  IndexReader_getitem(session[1].threads[out[i].slot + 1].index,
                                      out[i].seq).val[1]

(* The first declared thread has no directory, the second has one, and an  *)
(* event of the second was returned with slot 0.                           *)
C17_Witness ==
    /\ Len(manifest) >= 2
    /\ ~manifest[1].exists /\ manifest[2].exists
    /\ Len(out) >= 1 /\ out[1].slot = 0
    /\ session # <<>> /\ Len(session[1].threads) = 1

SetMin(S) == CHOOSE x \in S : \A y \in S : x <= y
SetMax(S) == CHOOSE x \in S : \A y \in S : x >= y

(* C18: session.time_range() is (0, 0) when no thread was loaded, and      *)
(* otherwise the least start and the greatest end of the loaded threads'   *)
(* time ranges.                                                            *)
C18_SessionTimeRange ==
    (pc = "session" /\ res.op = "time_range") =>
        LET ranges == {IndexReader_time_range(session[1].threads[k].index) :
                          k \in 1..Len(session[1].threads)}
        IN  /\ res.exc = "none"
            /\ res.val[1] = IF session[1].threads = <<>> THEN <<0, 0>>
                            ELSE <<SetMin({r[1] : r \in ranges}),
                                   SetMax({r[2] : r \in ranges})>>

(* The start comes from the second thread and the end from the first. *)
C18_Witness ==
    /\ pc = "session" /\ res.op = "time_range"
    /\ Len(session[1].threads) = 2
    /\ res.val[1][1] = IndexReader_time_range(session[1].threads[2].index)[1]
    /\ res.val[1][2] = IndexReader_time_range(session[1].threads[1].index)[2]
    /\ res.val[1] # IndexReader_time_range(session[1].threads[1].index)
    /\ res.val[1] # IndexReader_time_range(session[1].threads[2].index)

---------------------------------------------------------------------------
(* Properties of one reader on one file (specification SpecFile).  The     *)
(* expected values are read from the bytes of the file.                    *)

FileEventsOffset == LE(Slice(file, 32, 40))
FileFooterOffset == LE(Slice(file, 40, 48))

(* The footer lies inside the file and carries the footer magic. *)
FooterAdopted ==
    /\ FileFooterOffset + INDEX_FOOTER_SIZE <= Len(file)
    /\ Slice(file, FileFooterOffset, FileFooterOffset + 4) = INDEX_FOOTER_MAGIC

FileFooterField(from, to) == LE(Slice(file, FileFooterOffset + from, FileFooterOffset + to))

(* C5 as claimed: len(reader) is footer.event_count when the footer lies   *)
(* inside the file with magic "2ITA", and (file_size - events_offset) / 32 *)
(* otherwise.                                                              *)
C5_LenFooterOrQuotient ==
    (pc = "index" /\ res.op = "len") =>
        /\ res.exc = "none"
        /\ res.val[1] = IF FooterAdopted THEN FileFooterField(8, 16)
                        ELSE (Len(file) - FileEventsOffset) \div INDEX_EVENT_SIZE

(* C6: time_range() is the footer's (time_start_ns, time_end_ns) exactly   *)
(* when the footer was adopted, and the header's otherwise.                *)
C6_TimeRangeFooterPreferred ==
    (pc = "index" /\ res.op = "time_range") =>
        res.val[1] = IF FooterAdopted
                     THEN <<FileFooterField(16, 24), FileFooterField(24, 32)>>
                     ELSE <<LE(Slice(file, 48, 56)), LE(Slice(file, 56, 64))>>

(* time_range() answered from an adopted footer whose times differ from    *)
(* the header's.                                                           *)
C6_Witness ==
    /\ pc = "index" /\ res.op = "time_range"
    /\ FooterAdopted
    /\ res.val[1] # <<LE(Slice(file, 48, 56)), LE(Slice(file, 56, 64))>>

(* C7 as claimed: every record the reader returns lies inside the events   *)
(* region, which ends at footer_offset when the footer was adopted and at  *)
(* the end of the file otherwise.                                          *)
C7_RecordsInsideEventsRegion ==
    (pc = "index" /\ res.op = "getitem" /\ res.exc = "none") =>
        LET first == FileEventsOffset + res.arg * INDEX_EVENT_SIZE
            regionEnd == IF FooterAdopted THEN FileFooterOffset ELSE Len(file)
        IN  FileEventsOffset <= first /\ first + INDEX_EVENT_SIZE <= regionEnd

(* C8 as claimed: on an open reader, reader[seq] fails out-of-range for    *)
(* seq < 0 or seq >= len(reader), and returns the decoding of the 32 bytes *)
(* at events_offset + seq * 32 for every other seq.                        *)
C8_GetItemDecodesRecord ==
    (pc = "index" /\ res.op = "getitem" /\ ~ireader[1].closed) =>
        LET first == FileEventsOffset + res.arg * INDEX_EVENT_SIZE
            bytes == SubSeq(file, first + 1, first + INDEX_EVENT_SIZE)
        IN  IF res.arg < 0 \/ res.arg >= ireader[1].event_count
            THEN res.exc = "IndexError" /\ res.val = <<>>
            ELSE /\ res.exc = "none"
                 /\ first + INDEX_EVENT_SIZE <= Len(file)
                 /\ res.val[1] = IndexEvent_from_bytes(bytes).val[1]

IndexHeaderAccepted(f) ==
    /\ Len(f) >= INDEX_HEADER_SIZE
    /\ Slice(f, 0, 4) = INDEX_MAGIC
    /\ f[6] = 1
    /\ f[5] = 1
    /\ LE(Slice(f, 24, 28)) = 32

DetailHeaderAccepted(f) ==
    /\ Len(f) >= DETAIL_HEADER_SIZE
    /\ Slice(f, 0, 4) = DETAIL_MAGIC
    /\ f[6] = 1
    /\ f[5] = 1

(* C9: an index reader exists only on a file of at least 64 bytes whose    *)
(* header has magic "ATI2", version 1, endian 0x01 and event_size 32; on   *)
(* any other file the open raises and leaves no reader.  The same for a    *)
(* detail reader with magic "ATD2", version 1, endian 0x01.                *)
C9_OpenOnlyAcceptedHeaders ==
    /\ ireader # <<>> => IndexHeaderAccepted(file)
    /\ dreader # <<>> => DetailHeaderAccepted(file)
    /\ (res.op = "IndexReader" /\ ~IndexHeaderAccepted(file)) =>
           (res.exc = "ValueError" /\ ireader = <<>> /\ pc = "failed")
    /\ (res.op = "DetailReader" /\ ~DetailHeaderAccepted(file)) =>
           (res.exc = "ValueError" /\ dreader = <<>> /\ pc = "failed")

(* An index open refused for the version alone. *)
C9_Witness ==
    /\ res.op = "IndexReader" /\ res.exc = "ValueError"
    /\ Len(file) >= INDEX_HEADER_SIZE
    /\ Slice(file, 0, 4) = INDEX_MAGIC
    /\ file[5] = 1 /\ LE(Slice(file, 24, 28)) = 32
    /\ file[6] # 1

(* C10 as claimed: no opened reader has a header whose events_offset lies  *)
(* beyond the size of its file.                                            *)
C10_NoOffsetBeyondFile ==
    /\ ireader # <<>> => ireader[1].header.events_offset <= Len(file)
    /\ dreader # <<>> => dreader[1].header.events_offset <= Len(file)

---------------------------------------------------------------------------
(* Properties of the detail reader on one file (specification SpecFile) *)

FileDetailEventsOffset == LE(Slice(file, 20, 28))

(* The length field of the record at offset o of the file. *)
FileLength(o) == U32(Slice(file, o, o + 4))

(* The end of the data region: the last 64 bytes of the file are reserved. *)
FileDataEnd == Len(file) - DETAIL_FOOTER_RESERVE

(* The offsets of the records from o on, up to and without the first one   *)
(* whose length field is below 24.                                         *)
RECURSIVE RecordsBeforeShort(_)
RecordsBeforeShort(o) ==
    IF o + DETAIL_EVENT_HEADER_SIZE > FileDataEnd THEN <<>>
    ELSE IF FileLength(o) < DETAIL_EVENT_HEADER_SIZE THEN <<>>
    ELSE <<o>> \o RecordsBeforeShort(o + FileLength(o))

(* C11 as claimed: the walk stops before a record whose total_length is 0  *)
(* or otherwise below 24: the table of an opened detail reader holds the   *)
(* offsets of the records before it and not its offset, and len(detail)    *)
(* does not count it.                                                      *)
C11_WalkStopsBeforeShortRecord ==
    /\ dreader # <<>> =>
           dreader[1].event_index = RecordsBeforeShort(FileDetailEventsOffset)
    /\ (pc = "detail" /\ res.op = "len") =>
           res.val[1] = Len(RecordsBeforeShort(FileDetailEventsOffset))

(* C12 as claimed: every offset o in the table of an opened detail reader  *)
(* has a length field L with 24 <= L and o + L <= file_size - 64.          *)
C12_TableRecordsComplete ==
    dreader # <<>> =>
        \A k \in 1..Len(dreader[1].event_index) :
            LET o == dreader[1].event_index[k]
            IN  /\ DETAIL_EVENT_HEADER_SIZE <= FileLength(o)
                /\ o + FileLength(o) <= FileDataEnd

(* C13 as claimed: on an open reader, get(detail_seq) is None for          *)
(* detail_seq < 0 or >= len(detail); for every other detail_seq it is the  *)
(* event whose header is decoded from the 24 bytes at table[detail_seq]    *)
(* and whose payload is the bytes [offset + 24, offset + total_length) of  *)
(* the file, total_length - 24 of them.                                    *)
C13_GetDecodesTableRecord ==
    (pc = "detail" /\ res.op = "get" /\ ~dreader[1].closed) =>
        IF res.arg < 0 \/ res.arg >= Len(dreader[1].event_index)
        THEN res.exc = "none" /\ res.val[1] = <<>>
        ELSE LET o == dreader[1].event_index[res.arg + 1]
             IN  /\ res.exc = "none"
                 /\ res.val[1] # <<>>
                 /\ res.val[1][1].header =
                        DetailEventHeader_from_bytes(
                            SubSeq(file, o + 1, o + DETAIL_EVENT_HEADER_SIZE)).val[1]
                 /\ res.val[1][1].payload =
                        SubSeq(file, o + DETAIL_EVENT_HEADER_SIZE + 1, o + FileLength(o))
                 /\ Len(res.val[1][1].payload) =
                        FileLength(o) - DETAIL_EVENT_HEADER_SIZE

(* C14: on an open reader, get of a table record whose total_length        *)
(* exceeds the bytes from its offset to the end of the file raises the     *)
(* decoding error (ValueError), and no event get returns has a payload     *)
(* shorter than total_length - 24.                                         *)
C14_NoTruncatedPayload ==
    (/\ pc = "detail" /\ res.op = "get" /\ ~dreader[1].closed
     /\ res.arg >= 0 /\ res.arg < Len(dreader[1].event_index)) =>
        LET o == dreader[1].event_index[res.arg + 1]
        IN  /\ FileLength(o) > Len(file) - o =>
                   (res.exc = "ValueError" /\ res.val = <<>>)
            /\ (res.exc = "none" /\ res.val[1] # <<>>) =>
                   Len(res.val[1][1].payload) >=
                       res.val[1][1].header.total_length - DETAIL_EVENT_HEADER_SIZE

(* get refused for a record whose length field runs past the end of the    *)
(* file.                                                                   *)
C14_Witness ==
    /\ pc = "detail" /\ res.op = "get" /\ ~dreader[1].closed
    /\ res.arg >= 0 /\ res.arg < Len(dreader[1].event_index)
    /\ FileLength(dreader[1].event_index[res.arg + 1])
           > Len(file) - dreader[1].event_index[res.arg + 1]
    /\ res.exc = "ValueError"

---------------------------------------------------------------------------
(* Properties of closing one reader (specification SpecFile) *)

(* C19 as claimed: close() on an index reader or a detail reader that is   *)
(* already closed raises no error and leaves the reader as it is.          *)
C19_SecondCloseIsNoOp ==
    [][/\ (pc = "index" /\ ireader[1].closed /\ res'.op = "close") =>
              (res'.exc = "none" /\ ireader' = ireader)
       /\ (pc = "detail" /\ dreader[1].closed /\ res'.op = "close") =>
              (res'.exc = "none" /\ dreader' = dreader)]_vars

(* C20 as claimed: every operation called on a closed index reader or      *)
(* detail reader raises the error of a closed reader; none returns.        *)
C20_ClosedReaderRefusesAll ==
    /\ (pc = "index" /\ ireader[1].closed /\ res.op \in {"len", "getitem", "time_range"}) =>
           (res.exc = "ValueError" /\ res.val = <<>>)
    /\ (pc = "detail" /\ dreader[1].closed /\ res.op \in {"len", "get"}) =>
           (res.exc = "ValueError" /\ res.val = <<>>)

---------------------------------------------------------------------------
(* Properties of the thread reader (specification SpecThread) *)

(* The index event a get_detail_for was called with. *)
LookedUpEvent == IndexEventAt(thread[1], res.arg).val[1]

(* C15: get_detail_for(e) is None when e.detail_seq is 0xFFFFFFFF or the   *)
(* thread has no detail reader, and in every other case is the outcome of  *)
(* detail.get(e.detail_seq), which is None for detail_seq >= len(detail).  *)
C15_GetDetailForIsDetailGet ==
    (pc = "thread" /\ res.op = "get_detail_for") =>
        LET e == LookedUpEvent
            direct == DetailReader_get(thread[1].detail[1], e.detail_seq)
        IN  IF e.detail_seq = ATF_NO_DETAIL_SEQ \/ thread[1].detail = <<>>
            THEN res.exc = "none" /\ res.val[1] = <<>>
            ELSE /\ res.exc = direct.exc /\ res.val = direct.val
                 /\ e.detail_seq >= DetailReader_len(thread[1].detail[1]) =>
                        (res.exc = "none" /\ res.val[1] = <<>>)

(* get_detail_for of an index event with detail_seq 0 returned the first   *)
(* detail event.                                                           *)
C15_Witness ==
    /\ pc = "thread" /\ res.op = "get_detail_for"
    /\ LookedUpEvent.detail_seq = 0
    /\ res.exc = "none" /\ res.val[1] # <<>>
    /\ res.val[1][1].header.total_length = DETAIL_EVENT_HEADER_SIZE + 8

(* C16: for every k with d = detail.get(k) existing, get_index_for(d) has  *)
(* the outcome of index[d.header.index_seq]; and when that index event's   *)
(* detail_seq is k, get_detail_for of it returns d.                        *)
C16_PairedRoundTrip ==
    /\ (pc = "thread" /\ res.op = "get_index_for") =>
           LET d == DetailEventAt(thread[1], res.arg).val[1][1]
               direct == IndexReader_getitem(thread[1].index, d.header.index_seq)
           IN  res.exc = direct.exc /\ res.val = direct.val
    /\ (pc = "thread" /\ res.op = "get_detail_for") =>
           \A k \in 0..(MaxRecords - 1) :
               LET d == DetailReader_get(thread[1].detail[1], k)
               IN  (/\ thread[1].detail # <<>>
                    /\ d.exc = "none" /\ d.val[1] # <<>>
                    /\ d.val[1][1].header.index_seq = res.arg
                    /\ LookedUpEvent.detail_seq = k)
                       => (res.exc = "none" /\ res.val[1] = d.val[1])

(* Index event 0 and detail record 1 point at each other, and the forward  *)
(* lookup of the index event returned that record.                         *)
C16_Witness ==
    /\ pc = "thread" /\ res.op = "get_detail_for" /\ res.arg = 0
    /\ LookedUpEvent.detail_seq = 1
    /\ res.exc = "none" /\ res.val[1] # <<>>
    /\ res.val[1][1].header.index_seq = 0
    /\ res.val[1] = DetailReader_get(thread[1].detail[1], 1).val[1]

---------------------------------------------------------------------------
(* Properties of the detail offset table and of the lookup by index_seq    *)
(* (specification SpecFile)                                                *)

(* C24: the table of an opened detail reader is one contiguous walk: its   *)
(* first entry, if any, is the events_offset of the header; each following *)
(* entry is the previous one plus the length field of the previous record; *)
(* entries strictly increase; and every entry o has                        *)
(* o + 24 <= file_size - 64.                                               *)
C24_TableIsContiguousWalk ==
    dreader # <<>> =>
        LET table == dreader[1].event_index
        IN  /\ table # <<>> => table[1] = FileDetailEventsOffset
            /\ \A k \in 1..(Len(table) - 1) :
                   /\ table[k + 1] = table[k] + FileLength(table[k])
                   /\ table[k] < table[k + 1]
            /\ \A k \in 1..Len(table) :
                   table[k] + DETAIL_EVENT_HEADER_SIZE <= FileDataEnd

(* Two records in the table, and 10 stray bytes after the second one that  *)
(* added no entry.                                                         *)
C24_Witness ==
    /\ dreader # <<>>
    /\ Len(dreader[1].event_index) = 2
    /\ dreader[1].event_index[1] = FileDetailEventsOffset
    /\ LET last == dreader[1].event_index[2]
       IN  FileDataEnd - (last + FileLength(last)) = 10

(* The index_seq field of the record header at offset o of the file. *)
FileIndexSeq(o) == U32(Slice(file, o + 8, o + 12))

(* The table positions whose record header carries index_seq. *)
FileMatches(index_seq) ==
    {k \in 1..Len(dreader[1].event_index) :
        FileIndexSeq(dreader[1].event_index[k]) = index_seq}

(* C25 as claimed: on an open reader, get_by_index_seq(index_seq) returns  *)
(* the event of the smallest detail sequence whose header carries          *)
(* index_seq, and None exactly when no record of the table carries it.     *)
C25_FirstMatchByIndexSeq ==
    (pc = "detail" /\ res.op = "get_by_index_seq" /\ ~dreader[1].closed) =>
        LET matches == FileMatches(res.arg)
        IN  /\ res.exc = "none"
            /\ (res.val[1] = <<>>) <=> (matches = {})
            /\ matches # {} =>
                   LET first == CHOOSE k \in matches : \A j \in matches : k <= j
                       o == dreader[1].event_index[first]
                   IN  res.val[1][1].header =
                           DetailEventHeader_from_bytes(
                               SubSeq(file, o + 1, o + DETAIL_EVENT_HEADER_SIZE)).val[1]

(* The larger of two integers. *)
Max(a, b) == IF a >= b THEN a ELSE b

(* The bound C30 states for the number of table entries. *)
WalkBound == (Len(file) - DETAIL_FOOTER_RESERVE - FileDetailEventsOffset)
                 \div DETAIL_EVENT_HEADER_SIZE + 1

(* C30 as claimed: the walk ends for every file content, every step        *)
(* advancing by at least 24, and the table has at most                     *)
(* (file_size - 64 - events_offset) / 24 + 1 entries.                      *)
C30_WalkBoundAsStated ==
    dreader # <<>> =>
        /\ \A k \in 1..(Len(dreader[1].event_index) - 1) :
               dreader[1].event_index[k + 1] - dreader[1].event_index[k]
                   >= DETAIL_EVENT_HEADER_SIZE
        /\ Len(dreader[1].event_index) <= WalkBound

(* C30: the walk ends for every file content, every step advancing by at   *)
(* least 24, and the table has at most                                     *)
(* max(0, (file_size - 64 - events_offset) / 24 + 1) entries: none when    *)
(* events_offset lies after file_size - 64.                                *)
C30_WalkBound ==
    dreader # <<>> =>
        /\ \A k \in 1..(Len(dreader[1].event_index) - 1) :
               dreader[1].event_index[k + 1] - dreader[1].event_index[k]
                   >= DETAIL_EVENT_HEADER_SIZE
        /\ Len(dreader[1].event_index) <= Max(0, WalkBound)

(* A walk of two steps over a file whose data region is longer than the    *)
(* two records it found.                                                   *)
C30_Witness ==
    /\ dreader # <<>>
    /\ Len(dreader[1].event_index) = 2
    /\ dreader[1].event_index[2] - dreader[1].event_index[1] > DETAIL_EVENT_HEADER_SIZE
    /\ WalkBound > 2

---------------------------------------------------------------------------
(* Properties of the heap and of the whole merged iteration                *)
(* (specification Spec)                                                    *)

(* The number of events of the thread in a slot, 0 when len() raises. *)
SlotLen(slot) ==
    LET n == IndexReader_len(session[1].threads[slot + 1].index)
    IN  IF n.exc = "none" THEN n.val[1] ELSE 0

(* The pairs (slot, seq) the session holds an index event for. *)
SessionPairs ==
    {<<slot, seq>> \in (0..(Len(session[1].threads) - 1)) \X (0..MaxEvents) :
        seq < SlotLen(slot)}

(* C28 as claimed: a merged iteration yields a permutation of the          *)
(* session's index events: every yielded pair (slot, seq) has              *)
(* 0 <= seq < len(threads[slot].index) and the event of index.get(seq), no *)
(* pair is yielded twice, and when next() signals the end every such pair  *)
(* has been yielded.                                                       *)
C28_YieldsPermutation ==
    pc = "iterating" =>
        /\ \A i \in 1..Len(out) :
               /\ <<out[i].slot, out[i].seq>> \in SessionPairs
               /\ LET e == IndexReader_getitem(session[1].threads[out[i].slot + 1].index,
                                               out[i].seq)
                  IN  e.exc = "none" /\ out[i].event = e.val[1]
        /\ \A i, j \in 1..Len(out) :
               (out[i].slot = out[j].slot /\ out[i].seq = out[j].seq) => i = j
        /\ (res.op = "next" /\ res.exc = "StopIteration") =>
               \A p \in SessionPairs :
                   \E i \in 1..Len(out) : out[i].slot = p[1] /\ out[i].seq = p[2]

(* C29 as claimed: the heap of a merged iterator holds at most one entry   *)
(* per slot, every entry (ts, slot, seq) has                               *)
(* 0 <= seq < len(threads[slot].index) and the timestamp_ns of             *)
(* index.get(seq), and a slot has an entry exactly while it has unyielded  *)
(* events.                                                                 *)
C29_HeapOneEntryPerSlot ==
    pc = "iterating" =>
        LET heap == iter[1].heap
        IN  /\ \A i, j \in 1..Len(heap) : heap[i][2] = heap[j][2] => i = j
            /\ Len(heap) <= Len(session[1].threads)
            /\ \A i \in 1..Len(heap) :
                   /\ <<heap[i][2], heap[i][3]>> \in SessionPairs
                   /\ LET e == IndexReader_getitem(
                                   session[1].threads[heap[i][2] + 1].index, heap[i][3])
                      IN  e.exc = "none" /\ heap[i][1] = e.val[1].timestamp_ns
            /\ \A slot \in 0..(Len(session[1].threads) - 1) :
                   (\E i \in 1..Len(heap) : heap[i][2] = slot)
                       <=> (Yielded(slot, Len(out)) < SlotLen(slot))

---------------------------------------------------------------------------
(* Properties of the life of a session (specification SpecLife) *)

(* C21 as claimed: when opening a reader fails, every file handle and      *)
(* mapping acquired before the failure, those of the sibling readers       *)
(* already opened included, is released and no half-constructed reader     *)
(* remains.                                                                *)
C21_FailedOpenReleasesAll ==
    pc = "failed" => held = {}

(* C22 as claimed: after SessionReader.close() has returned, the index     *)
(* reader of every loaded thread is closed, and so is its detail reader    *)
(* when it has one.                                                        *)
C22_CloseReleasesAllThreads ==
    (pc = "closed" /\ res.exc = "none") =>
        \A k \in 1..Len(session[1].threads) :
            LET t == session[1].threads[k]
            IN  /\ t.index.closed
                /\ t.detail # <<>> => t.detail[1].closed

(* C23 as claimed: a manifest whose end time is before its start time,     *)
(* whose thread list is not a list or whose thread ids are not numbers is  *)
(* rejected with an error at session open, whatever its threads are, and   *)
(* no session is opened on it.                                             *)
C23_ManifestShapeRejected ==
    (/\ pc # "start"
     /\ \/ json.time_end_ns < json.time_start_ns
        \/ json.threads # "list"
        \/ json.ids # "int") =>
        (pc = "failed" /\ res.exc # "none" /\ session = <<>>)

(* Whether p is a prefix of q or q one of p. *)
PrefixOrdered(p, q) ==
    \A i \in 1..Min(Len(p), Len(q)) : p[i] = q[i]

(* What holds of two merged iterators of a session in every state. *)
IteratorsAgree ==
    (pc = "iterating" /\ other # <<>>) =>
        /\ PrefixOrdered(out, other[1].out)
        /\ (iter[1].heap = <<>> /\ other[1].heap = <<>>) => out = other[1].out
        /\ (res.op = "merged_iter" /\ res.arg = 1 /\ res.exc = "none") =>
               /\ other[1].out = <<>>
               /\ \A i \in 1..Len(other[1].heap) : other[1].heap[i][3] = 0
               /\ \A slot \in 0..(Len(session[1].threads) - 1) :
                      SlotLen(slot) > 0 =>
                          \E i \in 1..Len(other[1].heap) : other[1].heap[i][2] = slot

(* C26: a merged iterator is single-pass: next() on an iterator whose heap *)
(* is empty signals the end again and returns nothing; every fresh         *)
(* merged_iter() starts from sequence 0 of every thread that has events    *)
(* and yields the sequence the first iterator yields (of two iterators one *)
(* output is a prefix of the other, and the two are equal once both are    *)
(* exhausted); and a step of one iterator, or a fresh merged_iter(),       *)
(* leaves the other iterator and its output as they were.                  *)
C26_SinglePassIndependentIterators ==
    [][/\ IteratorsAgree'
       /\ (pc = "iterating" /\ res'.op = "next" /\ res'.arg = 0) =>
              /\ other' = other
              /\ iter[1].heap = <<>> =>
                     (res'.exc = "StopIteration" /\ out' = out /\ iter' = iter)
       /\ (pc = "iterating" /\ res'.op = "next" /\ res'.arg = 1) =>
              /\ iter' = iter /\ out' = out
              /\ other[1].heap = <<>> =>
                     (res'.exc = "StopIteration" /\ other' = other)
       /\ (pc = "iterating" /\ res'.op = "merged_iter") =>
              (iter' = iter /\ out' = out)]_vars

(* The first iterator is exhausted after three events or more; the second  *)
(* one, asked for later, has returned fewer and has just returned one.     *)
C26_Witness ==
    /\ pc = "iterating" /\ other # <<>>
    /\ iter[1].heap = <<>> /\ Len(out) >= 3
    /\ Len(other[1].out) >= 1 /\ Len(other[1].out) < Len(out)
    /\ res.op = "next" /\ res.arg = 1 /\ res.exc = "none"

(* What the calls on a thread reader can tell of it: the event count, the  *)
(* header and footer values, every index event, the offset table and every *)
(* detail event.                                                           *)
Observed(t) ==
    [len     |-> IndexReader_len(t.index),
     header  |-> t.index.header,
     footer  |-> t.index.footer,
     events  |-> [seq \in 0..MaxEvents |-> IndexReader_getitem(t.index, seq)],
     range   |-> ThreadReader_time_range(t),
     table   |-> IF t.detail = <<>> THEN <<>> ELSE t.detail[1].event_index,
     dheader |-> IF t.detail = <<>> THEN <<>> ELSE <<t.detail[1].header>>,
     details |-> [k \in 0..MaxRecords |->
                     IF t.detail = <<>> THEN Ok(<<>>) ELSE DetailReader_get(t.detail[1], k)]]

(* C27: between open and close no call (event_count, time_range,           *)
(* merged_iter, next, get_detail_for, get_index_for, get_by_index_seq)     *)
(* changes a reader of the session: the event count, the header and footer *)
(* values, the detail offset table and the result of every get(seq) are    *)
(* after the call what they were before it.                                *)
C27_ReadersImmutable ==
    [][(session # <<>> /\ pc' # "closed") =>
           /\ Len(session'[1].threads) = Len(session[1].threads)
           /\ \A k \in 1..Len(session[1].threads) :
                  Observed(session'[1].threads[k]) = Observed(session[1].threads[k])]_vars

(* A session with a detail record in a thread, of which an iterator has    *)
(* returned two events or more.                                            *)
C27_Witness ==
    /\ pc = "iterating" /\ Len(out) >= 2
    /\ res.op = "next" /\ res.exc = "none"
    /\ \E k \in 1..Len(session[1].threads) :
           /\ session[1].threads[k].detail # <<>>
           /\ Len(session[1].threads[k].detail[1].event_index) >= 1

=============================================================================
